---- MODULE Spec2Model ----
(***************************************************************************)
(* Level generation and reachability verification of game_ai_tech_demo     *)
(* (src/common.c, src/level.c, src/editor.c, src/game.c).                  *)
(*                                                                         *)
(* A Tile is a u16 bit array; it is modelled as the set of the entity      *)
(* numbers whose bit is set, so that  a | b  is  a \cup b,  a & b  is      *)
(* a \cap b,  t ^ BIT(e)  is the symmetric difference with {e}  and        *)
(* t == BIT(e)  is  t = {e}.  A Level is the flat row-major array          *)
(* level[x + y * LEVEL_SIZE] of the source, kept flat here so that an      *)
(* index computed from an out-of-range coordinate lands where it lands in  *)
(* the program.  The grid is scaled down from the 22 x 22 of the source.   *)
(***************************************************************************)
EXTENDS Integers, Sequences, FiniteSets

VARIABLES level, pc, loc, ret

vars == <<level, pc, loc, ret>>

\* ---------------------------------------------------------------- bounds
\* Side of the square grid (22 in the source, scaled down).
LEVEL_SIZE == 4
\* Largest value of a random_u64 draw (2^64 - 1 in the source, scaled down).
UINT64_MAX == 7
\* Largest magnitude of the low/high arguments tried on random_int_range.
MaxInt == 3
\* Most interior cells of an input grid that are not plain Floor.
MaxObstacles == 1
\* wall_count of reverse_verified_scatter_generator (4.0 * 484 in the source).
WallCount == 2
\* attempts of reverse_verified_scatter_generator (32 in the source).
Attempts == 2
\* Most tiles the hazard scattering of a placer turns into Gold, Enemy or Spikes.
MaxHazards == 2
\* iterations of digger_generator (5 in the source).
Iterations == 2
\* ideal_walkable of digger_generator (0.2 * 484 = 96 in the source).
IdealWalkable == 3
\* Largest magnitude tried for the value an uninitialised int holds.
MaxJunk == 1

\* ------------------------------------------------------ entities (common.c)
FLOOR == 1
WALL == 2
SPIKES == 3
EXIT == 4
LOCK == 5
GOLD == 6
KEY == 7
ENEMY == 8
PLAYER == 9

\* enum { UP = 1, DOWN, LEFT, RIGHT }
UP == 1
DOWN == 2
LEFT == 3
RIGHT == 4

Entities == FLOOR..PLAYER
Tile == SUBSET Entities

BIT(n) == {n}

MIN(a, b) == IF a < b THEN a ELSE b
MAX(a, b) == IF a > b THEN a ELSE b
\* #define CLAMP(low, val, high) MIN(MAX(low, val), high)
CLAMP(low, val, high) == MIN(MAX(low, val), high)

abs(v) == IF v < 0 THEN -v ELSE v

\* Indices of the Level array, and the index of the tile at (x, y).
Cells == 0..(LEVEL_SIZE * LEVEL_SIZE - 1)
Idx(x, y) == x + y * LEVEL_SIZE
XOf(c) == c % LEVEL_SIZE
YOf(c) == c \div LEVEL_SIZE
Coords == 0..(LEVEL_SIZE - 1)
Interior == {c \in Cells : XOf(c) \in 1..(LEVEL_SIZE - 2) /\ YOf(c) \in 1..(LEVEL_SIZE - 2)}
Border == Cells \ Interior

\* What a load through an index outside the array may yield: the program
\* reads whatever lies past the array, which may or may not compare equal
\* to BIT(FLOOR).
Garbage == {{}, {FLOOR}}
\* level[i] as an rvalue; g is the value found past the end of the array.
Load(lv, i, g) == IF i \in Cells THEN lv[i] ELSE g
\* level[i] = t; a store past the end of the array does not land in the level.
Store(lv, i, t) == IF i \in Cells THEN [lv EXCEPT ![i] = t] ELSE lv

\* ------------------------------------------------- random source (common.c)
\* The values random_u64 can return.
U64 == 0..UINT64_MAX

\* C conversion of the quotient a / b (b > 0) to int: truncation toward zero.
TruncDiv(a, b) == IF a >= 0 THEN a \div b ELSE -((-a) \div b)

\* random_float() is u / UINT64_MAX for the draw u, a value of [0, 1] that is
\* 1.0 for the largest draw.  random_int_range returns
\* random_float() * d + low  converted to int.
random_int_range(low, high, u) ==
    LET d == abs(high - low) + 1 IN TruncDiv(u * d + low * UINT64_MAX, UINT64_MAX)

\* chance(p) for p = num / den:  random_float() <= p.
chance(num, den, u) == u * den <= num * UINT64_MAX

\* ------------------------------------------------------- flood (common.c)
\* enum { TODO = 1, DONE = 2 } of flood; 0 is a tile not yet touched.
TODO == 1
DONE == 2

\* The Flood_Func callbacks of the repository.  Each yields the tile as the
\* callback leaves it, the callback's data, and the stop request it returns.
\*   flood_record_tiles (common.c): *result |= *tile; never stops.
\*   count_entities (level.c): counts tiles with a bit beyond Floor/Wall/Spikes.
\*   verify_level (editor.c): marks the tile with Spikes, stops once a Key
\*       and an Exit have been found.
Flood_Funcs == {"flood_record_tiles", "count_entities", "verify_level"}

flood_record_tiles(tile, data) ==
    [tile |-> tile, data |-> data \cup tile, stop |-> FALSE]

count_entities(tile, data) ==
    [tile |-> tile,
     data |-> IF tile \ (BIT(FLOOR) \cup BIT(WALL) \cup BIT(SPIKES)) # {}
              THEN data + 1 ELSE data,
     stop |-> FALSE]

verify_level(tile, data) ==
    LET t == tile \cup BIT(SPIKES)
        found == [key |-> data.key \/ KEY \in t, exit |-> data.exit \/ EXIT \in t]
    IN [tile |-> t, data |-> found, stop |-> found.key /\ found.exit]

CallFloodFunc(func, tile, data) ==
    CASE func = "flood_record_tiles" -> flood_record_tiles(tile, data)
      [] func = "count_entities" -> count_entities(tile, data)
      [] func = "verify_level" -> verify_level(tile, data)

\* The initial value each callback's data is given by its callers.
InitialData(func) ==
    CASE func = "flood_record_tiles" -> {}
      [] func = "count_entities" -> 0
      [] func = "verify_level" -> [key |-> FALSE, exit |-> FALSE]

\* (level[...] & mask) == (target & mask)
FloodMatch(tile, mask, target) == (tile \cap mask) = (target \cap mask)

FloodMark(todo, cond, c) ==
    IF cond /\ todo[c] # DONE THEN [todo EXCEPT ![c] = TODO] ELSE todo

\* Faulty variant of FloodNeighbours: the downward neighbour is forgotten.
FloodNeighboursNoDown(todo, x, y) ==
    LET t1 == FloodMark(todo, x > 0, Idx(x - 1, y))
        t2 == FloodMark(t1, x < LEVEL_SIZE - 1, Idx(x + 1, y))
    IN FloodMark(t2, y > 0, Idx(x, y - 1))

\* "Add the neighbouring tiles, if they have not already been checked."
FloodNeighbours(todo, x, y) ==
    LET t1 == FloodMark(todo, x > 0, Idx(x - 1, y))
        t2 == FloodMark(t1, x < LEVEL_SIZE - 1, Idx(x + 1, y))
        t3 == FloodMark(t2, y > 0, Idx(x, y - 1))
    IN FloodMark(t3, y < LEVEL_SIZE - 1, Idx(x, y + 1))

\* The body of the two inner loops for the tile at index c.  st holds the
\* locals of flood: the level, todo, steps_taken, cleared_todo, the data
\* pointer's target, the tiles the callback was invoked on (in order), and
\* whether a callback has asked to stop (flood has then returned).
FloodTile(st, c, mask, target, func) ==
    IF st.todo[c] # TODO THEN st
    ELSE IF ~FloodMatch(st.level[c], mask, target)
    THEN [st EXCEPT !.cleared = FALSE]
    ELSE LET r == CallFloodFunc(func, st.level[c], st.data)
             called == [st EXCEPT !.cleared = FALSE,
                                  !.level = [st.level EXCEPT ![c] = r.tile],
                                  !.data = r.data,
                                  !.visits = Append(st.visits, c)]
         IN IF r.stop THEN [called EXCEPT !.stop = TRUE]
            ELSE [called EXCEPT
                    !.todo = FloodNeighbours([st.todo EXCEPT ![c] = DONE], XOf(c), YOf(c)),
                    !.steps = st.steps + 1]

\* for y, for x: one row-major sweep over the level, from index c on.
RECURSIVE FloodSweep(_, _, _, _, _)
FloodSweep(st, c, mask, target, func) ==
    IF c >= LEVEL_SIZE * LEVEL_SIZE \/ st.stop THEN st
    ELSE FloodSweep(FloodTile(st, c, mask, target, func), c + 1, mask, target, func)

\* for (i = 0; i < LEVEL_SIZE * LEVEL_SIZE; ++i) { sweep; if (cleared_todo) break; }
\* A sweep that changes neither todo nor steps_taken is repeated unchanged by
\* every later iteration, so the remaining iterations are not unrolled.
RECURSIVE FloodLoop(_, _, _, _, _)
FloodLoop(st, i, mask, target, func) ==
    IF i >= LEVEL_SIZE * LEVEL_SIZE THEN st
    ELSE LET s1 == FloodSweep([st EXCEPT !.cleared = TRUE], 0, mask, target, func)
         IN IF s1.stop \/ s1.cleared THEN s1
            ELSE IF s1.todo = st.todo /\ s1.steps = st.steps THEN s1
            ELSE FloodLoop(s1, i + 1, mask, target, func)

\* flood(level, start_x, start_y, mask, target, func, data).  The result holds
\* the return value (steps), the level and data as the callbacks left them and
\* the sequence of tiles func was invoked on.  todo[start] = TODO with a start
\* index outside todo does not land in todo.
flood(lv, start_x, start_y, mask, target, func, data) ==
    FloodLoop([level |-> lv,
               todo |-> [c \in Cells |-> IF c = Idx(start_x, start_y) THEN TODO ELSE 0],
               steps |-> 0, cleared |-> TRUE, data |-> data,
               visits |-> <<>>, stop |-> FALSE],
              0, mask, target, func)

\* find_player: the first tile in row-major order that has the Player bit.
find_player(lv) ==
    LET P == {c \in Cells : PLAYER \in lv[c]}
    IN IF P = {} THEN [found |-> FALSE, px |-> 0, py |-> 0]
       ELSE LET c == CHOOSE m \in P : \A o \in P : m <= o
            IN [found |-> TRUE, px |-> XOf(c), py |-> YOf(c)]

\* Faulty variant of level_is_completable: one of Key and Exit is enough.
LevelIsCompletableEither(lv) ==
    LET p == find_player(lv)
    IN IF ~p.found THEN FALSE
       ELSE flood(lv, p.px, p.py, BIT(FLOOR) \cup BIT(WALL) \cup BIT(SPIKES), BIT(FLOOR),
                  "flood_record_tiles", {}).data \cap (BIT(KEY) \cup BIT(EXIT)) # {}

level_is_completable(lv) ==
    LET p == find_player(lv)
    IN IF ~p.found THEN FALSE
       ELSE flood(lv, p.px, p.py, BIT(FLOOR) \cup BIT(WALL) \cup BIT(SPIKES), BIT(FLOOR),
                  "flood_record_tiles", {}).data \cap (BIT(KEY) \cup BIT(EXIT))
            = (BIT(KEY) \cup BIT(EXIT))

\* ------------------------------------------------------------ input grids
\* No cell: an entity that is absent from an input grid.
None == 0 - 1

\* fill_level(level, entity): every tile is exactly BIT(entity).
fill_level(lv, entity) == [c \in Cells |-> BIT(entity)]

\* Faulty variant of empty_level: the side columns stop short of the corners.
EmptyLevelOpenCorners(lv) ==
    [c \in Cells |->
        IF (YOf(c) \in {0, LEVEL_SIZE - 1} /\ XOf(c) \in 1..(LEVEL_SIZE - 2))
           \/ (XOf(c) \in {0, LEVEL_SIZE - 1} /\ YOf(c) \in 1..(LEVEL_SIZE - 2))
        THEN BIT(WALL) ELSE fill_level(lv, FLOOR)[c]]

\* empty_level: fill with Floor; Wall on rows 0 and LEVEL_SIZE-1 for
\* x in 1..LEVEL_SIZE-2; Wall on columns 0 and LEVEL_SIZE-1 for every y.
empty_level(lv) ==
    LET filled == fill_level(lv, FLOOR)
        rows == [c \in Cells |->
                    IF YOf(c) \in {0, LEVEL_SIZE - 1} /\ XOf(c) \in 1..(LEVEL_SIZE - 2)
                    THEN BIT(WALL) ELSE filled[c]]
    IN [c \in Cells |->
            IF XOf(c) \in {0, LEVEL_SIZE - 1} /\ YOf(c) \in 0..(LEVEL_SIZE - 1)
            THEN BIT(WALL) ELSE rows[c]]

\* The grids the operations are tried on: a walled arena or two open rooms,
\* up to MaxObstacles interior cells turned into Wall or Spikes, and entities
\* put on interior cells or left out.
ObstacleSets == {S \in SUBSET Interior : Cardinality(S) <= MaxObstacles}

Terrain(base, walls, spikes) ==
    [c \in Cells |->
        IF c \in walls THEN BIT(WALL)
        ELSE IF c \in spikes THEN BIT(FLOOR) \cup BIT(SPIKES)
        ELSE base[c]]

\* An open grid of Floor cut in two by a full column of Wall.
TwoRooms == [c \in Cells |-> IF XOf(c) = 1 THEN BIT(WALL) ELSE BIT(FLOOR)]

Bases == {empty_level(fill_level(<<>>, WALL)), TwoRooms}

Terrains ==
    UNION {{Terrain(b, w, o \ w) : w \in SUBSET o} : b \in Bases, o \in ObstacleSets}

Put(lv, c, bits) == IF c = None THEN lv ELSE [lv EXCEPT ![c] = @ \cup bits]

Spots == Interior \cup {None}
FirstSpot == Idx(1, 1)
LastSpot == Idx(LEVEL_SIZE - 2, LEVEL_SIZE - 2)

\* Grids with a Key and an Exit for the flood callbacks to find.
FloodLevels ==
    {Put(Put(t, e, BIT(EXIT) \cup BIT(LOCK)), k, BIT(KEY)) :
        t \in Terrains, e \in {None, LastSpot}, k \in {None, FirstSpot}}

\* The calls of flood that are tried.  level.c and common.c block on Wall and
\* Spikes (flood_record_tiles); editor.c looks at the Floor bit only
\* (verify_level); the last one floods the walls.
FloodCalls ==
    {[mask |-> BIT(FLOOR) \cup BIT(WALL) \cup BIT(SPIKES), target |-> BIT(FLOOR),
      func |-> "flood_record_tiles"],
     [mask |-> BIT(FLOOR), target |-> BIT(FLOOR) \cup BIT(WALL),
      func |-> "verify_level"],
     [mask |-> BIT(WALL), target |-> BIT(WALL), func |-> "flood_record_tiles"]}

\* ------------------------------------------- reference notions for the claims
\* Two tiles are 4-neighbours.
Adjacent(c, d) == abs(XOf(c) - XOf(d)) + abs(YOf(c) - YOf(d)) = 1

RECURSIVE Grow(_, _)
Grow(S, M) ==
    LET S2 == S \cup {c \in M : \E d \in S : Adjacent(c, d)}
    IN IF S2 = S THEN S ELSE Grow(S2, M)

\* The 4-connected component of s among the tiles of M ({} when s is not in M).
ComponentIn(s, M) == IF s \in M THEN Grow({s}, M) ELSE {}

\* The tiles of lv that match under mask and target.
Matching(lv, mask, target) == {c \in Cells : (lv[c] \cap mask) = (target \cap mask)}

\* The elements of a sequence.
Range(q) == {q[j] : j \in 1..Len(q)}

\* ------------------------------------------------------- SpecFlood: flood
InitFlood ==
    /\ level \in FloodLevels
    /\ pc = "ready"
    /\ loc = [op |-> "none"]
    /\ ret = "none"

\* One call of flood on the grid, from any start tile.
FloodCall ==
    /\ pc = "ready"
    /\ \E sx \in Coords, sy \in Coords, call \in FloodCalls :
        \E r \in {flood(level, sx, sy, call.mask, call.target, call.func,
                        InitialData(call.func))} :
           /\ level' = r.level
           /\ pc' = "flood"
           /\ loc' = [op |-> "flood", before |-> level, start |-> Idx(sx, sy),
                      mask |-> call.mask, target |-> call.target, func |-> call.func,
                      visits |-> r.visits, data |-> r.data, stopped |-> r.stop]
           /\ ret' = r.steps

NextFlood == FloodCall

SpecFlood == InitFlood /\ [][NextFlood]_vars

\* C3: with a callback that never asks to stop, flood invokes it exactly once
\* on every tile of the 4-connected component of matching tiles that contains
\* the start tile, on no other tile, and returns the size of that component
\* (0 when the start tile does not match).
C3_FloodVisitsComponentOnce ==
    (pc = "flood" /\ loc.func = "flood_record_tiles") =>
        LET comp == ComponentIn(loc.start, Matching(loc.before, loc.mask, loc.target))
        IN /\ Range(loc.visits) = comp
           /\ Len(loc.visits) = Cardinality(comp)
           /\ ret = Cardinality(comp)
           /\ ~loc.stopped

\* A flood of several tiles that had to sweep backwards (a visited tile lies
\* before the start in row-major order) and left a matching tile of another
\* component alone.
C3_Witness ==
    /\ pc = "flood"
    /\ loc.func = "flood_record_tiles"
    /\ ret >= 3
    /\ \E c \in Range(loc.visits) : c < loc.start
    /\ Matching(loc.before, loc.mask, loc.target) \ Range(loc.visits) # {}

\* ------------------------------ Spec: one call on a grid that holds entities
\* Grids with players, a Key and an Exit on interior cells or left out; the
\* second Player, when there is one, is on the last interior cell.
InputLevels ==
    {Put(Put(Put(Put(t, e, BIT(EXIT) \cup BIT(LOCK)), k, BIT(KEY)), p, BIT(PLAYER)),
         p2, BIT(PLAYER)) :
        t \in Terrains, e \in {None, LastSpot}, k \in {None, FirstSpot},
        p \in Spots, p2 \in {None, LastSpot}}

Init ==
    /\ level \in InputLevels
    /\ pc = "ready"
    /\ loc = [op |-> "none"]
    /\ ret = "none"

\* bool level_is_completable(Level level)
LevelIsCompletableCall ==
    /\ pc = "ready"
    /\ pc' = "level_is_completable"
    /\ ret' = level_is_completable(level)
    /\ loc' = [op |-> "level_is_completable"]
    /\ UNCHANGED level

\* void empty_level(Level level)
EmptyLevelCall ==
    /\ pc = "ready"
    /\ pc' = "empty_level"
    /\ level' = empty_level(level)
    /\ loc' = [op |-> "empty_level", before |-> level]
    /\ UNCHANGED ret

Next == LevelIsCompletableCall \/ EmptyLevelCall

Spec == Init /\ [][Next]_vars

\* The tiles a player can stand on safely: Floor without Wall and Spikes.
Walkable(lv) == {c \in Cells : FLOOR \in lv[c] /\ WALL \notin lv[c] /\ SPIKES \notin lv[c]}

\* Some tile has Player, and the component of walkable tiles around the first
\* such tile in row-major order holds a Key tile and an Exit tile.
KeyAndExitReachable(lv) ==
    \E p \in Cells :
        /\ PLAYER \in lv[p]
        /\ \A q \in Cells : PLAYER \in lv[q] => p <= q
        /\ \E comp \in {ComponentIn(p, Walkable(lv))} :
              /\ \E c \in comp : KEY \in lv[c]
              /\ \E c \in comp : EXIT \in lv[c]

\* C4: level_is_completable returns true iff some tile has Player and the
\* component of Floor-without-Wall-and-Spikes tiles around the first Player
\* tile in row-major order contains a Key tile and an Exit tile.
C4_CompletableIffKeyAndExitReachable ==
    pc = "level_is_completable" => (ret <=> KeyAndExitReachable(level))

\* The validator said no on a grid without Key whose Exit the player reaches.
C4_Witness ==
    /\ pc = "level_is_completable"
    /\ ret = FALSE
    /\ \A c \in Cells : KEY \notin level[c]
    /\ \E p \in Cells : /\ PLAYER \in level[p]
                        /\ \A q \in Cells : PLAYER \in level[q] => p <= q
                        /\ \E c \in ComponentIn(p, Walkable(level)) : EXIT \in level[c]

\* C9: after empty_level every tile of the outer ring is exactly Wall and every
\* interior tile is exactly Floor, whatever the grid held before.
C9_EmptyLevelRingAndInterior ==
    pc = "empty_level" =>
        \A x \in Coords, y \in Coords :
            level[x + y * LEVEL_SIZE] =
                IF x = 0 \/ y = 0 \/ x = LEVEL_SIZE - 1 \/ y = LEVEL_SIZE - 1
                THEN {WALL} ELSE {FLOOR}

\* empty_level ran on a grid whose corner was not Wall and whose interior
\* held a tile other than plain Floor.
C9_Witness ==
    /\ pc = "empty_level"
    /\ loc.before[0] # {WALL}
    /\ \E c \in Interior : loc.before[c] # {FLOOR}

\* ------------------------------------------- SpecRandom: the random source
InitRandom ==
    /\ level = fill_level(<<>>, FLOOR)
    /\ pc = "ready"
    /\ loc = [op |-> "none"]
    /\ ret = "none"

\* int random_int_range(int low, int high), on any draw of random_u64.
RandomIntRangeCall ==
    /\ pc = "ready"
    /\ \E low \in (0 - MaxInt)..MaxInt, high \in (0 - MaxInt)..MaxInt, u \in U64 :
        /\ low <= high
        /\ ret' = random_int_range(low, high, u)
        /\ loc' = [op |-> "random_int_range", low |-> low, high |-> high, u |-> u]
    /\ pc' = "random_int_range"
    /\ UNCHANGED level

\* bool chance(float chance_to_be_true), for the chances 0, 1/4, ..., 1.
ChanceCall ==
    /\ pc = "ready"
    /\ \E num \in 0..4, u \in U64 :
        /\ ret' = chance(num, 4, u)
        /\ loc' = [op |-> "chance", num |-> num, den |-> 4, u |-> u]
    /\ pc' = "chance"
    /\ UNCHANGED level

NextRandom == RandomIntRangeCall \/ ChanceCall

SpecRandom == InitRandom /\ [][NextRandom]_vars

\* C8: for low <= high, random_int_range(low, high) returns r with
\* low <= r <= high, never high + 1.
C8_RandomIntRangeInclusive ==
    pc = "random_int_range" => (loc.low <= ret /\ ret <= loc.high)

\* ------------------------------------------------- SpecIO: the level file
\* The contents of the file a level is loaded from.
Files == Bases

InitIO ==
    /\ level \in Terrains
    /\ pc = "ready"
    /\ loc = [op |-> "none"]
    /\ ret = "none"

\* bool load_level(FILE * file, Level level): fread stores the k tiles it
\* could read (k = LEVEL_SIZE * LEVEL_SIZE unless the file is short or the
\* read fails) and returns k; load_level returns (bool)k.
LoadLevelCall ==
    /\ pc = "ready"
    /\ \E file \in Files, k \in 0..(LEVEL_SIZE * LEVEL_SIZE) :
        /\ level' = [c \in Cells |-> IF c < k THEN file[c] ELSE level[c]]
        /\ ret' = (k # 0)
        /\ loc' = [op |-> "load_level", transferred |-> k]
    /\ pc' = "load_level"

\* bool write_level(FILE * file, Level level): fwrite returns the number k
\* of tiles it wrote; write_level returns (bool)k.
WriteLevelCall ==
    /\ pc = "ready"
    /\ \E k \in 0..(LEVEL_SIZE * LEVEL_SIZE) :
        /\ ret' = (k # 0)
        /\ loc' = [op |-> "write_level", transferred |-> k]
    /\ pc' = "write_level"
    /\ UNCHANGED level

NextIO == LoadLevelCall \/ WriteLevelCall

SpecIO == InitIO /\ [][NextIO]_vars

\* C10: load_level and write_level return true only when all
\* LEVEL_SIZE * LEVEL_SIZE tiles were transferred; a short transfer is
\* reported as failure.
C10_SuccessOnlyWhenAllTransferred ==
    pc \in {"load_level", "write_level"} =>
        (ret = TRUE => loc.transferred = LEVEL_SIZE * LEVEL_SIZE)

\* --------------------------------------- SpecRefine: the subtractive refiners
\* t ^ BIT(e)
Toggle(t, e) == IF e \in t THEN t \ {e} ELSE t \cup {e}

\* Faulty variant of TryWall: the wall is kept without asking level_is_completable.
TryWallUnverified(lv, c) ==
    [level |-> [lv EXCEPT ![c] = BIT(WALL)], accepted |-> TRUE]

\* The tentative wall of the refiners at index c:
\*   level[c] |= BIT(WALL);
\*   if (!level_is_completable(level)) level[c] ^= BIT(WALL);
\*   else { level[c] = BIT(WALL); break; }
TryWall(lv, c) ==
    IF ~level_is_completable([lv EXCEPT ![c] = @ \cup BIT(WALL)])
    THEN [level |-> [lv EXCEPT ![c] = Toggle(@ \cup BIT(WALL), WALL)], accepted |-> FALSE]
    ELSE [level |-> [lv EXCEPT ![c] = BIT(WALL)], accepted |-> TRUE]

\* reverse_verified_fill_generator: for y, for x over the interior, the
\* tentative wall; an accepted wall leaves the loop over x (break).  st holds
\* the level and the cells tried so far, in order.
RECURSIVE FillRow(_, _, _)
FillRowStep(st, r, x, y) ==
    IF r.accepted
    THEN [level |-> r.level, tried |-> Append(st.tried, Idx(x, y))]
    ELSE FillRow([level |-> r.level, tried |-> Append(st.tried, Idx(x, y))], x + 1, y)

FillRow(st, x, y) ==
    IF x >= LEVEL_SIZE - 1 THEN st
    ELSE FillRowStep(st, TryWall(st.level, Idx(x, y)), x, y)

RECURSIVE FillRows(_, _)
FillRows(st, y) ==
    IF y >= LEVEL_SIZE - 1 THEN st ELSE FillRows(FillRow(st, 1, y), y + 1)

reverse_verified_fill_generator(lv) == FillRows([level |-> lv, tried |-> <<>>], 1)

\* The grids the refiners are run on: the arena of empty_level with the
\* Player on one of two cells, the Key and the Exit placed or missing, and
\* Gold on a cell or nowhere.
RefineLevels ==
    {Put(Put(Put(Put(empty_level(fill_level(<<>>, WALL)), g, BIT(GOLD)),
                 ke[2], BIT(EXIT) \cup BIT(LOCK)), ke[1], BIT(KEY)), p, BIT(PLAYER)) :
        p \in {FirstSpot, Idx(1, 2)}, g \in {None, Idx(2, 1)},
        ke \in {<<FirstSpot, LastSpot>>, <<FirstSpot, Idx(2, 1)>>, <<None, LastSpot>>}}

\* The values random_int_range(1, LEVEL_SIZE-2) can return.
RefineDraws == {random_int_range(1, LEVEL_SIZE - 2, u) : u \in U64}

InitRefine ==
    /\ level \in RefineLevels
    /\ pc = "ready"
    /\ loc = [op |-> "none"]
    /\ ret = "none"

\* Entry of reverse_verified_scatter_generator.
ReverseVerifiedScatterEnter ==
    /\ pc = "ready"
    /\ pc' = "reverse_verified_scatter_generator"
    /\ loc' = [op |-> "reverse_verified_scatter_generator", before |-> level,
               i |-> 0, j |-> 0, last |-> "none"]
    /\ UNCHANGED <<level, ret>>

\* Where the loops stand after an attempt: an accepted wall breaks out of the
\* inner loop, the inner loop ends after Attempts iterations, the function
\* returns after WallCount iterations of the outer loop.
ScatterAdvance(kind) ==
    LET brk == kind = "accepted" \/ loc.j + 1 >= Attempts
        i2 == IF brk THEN loc.i + 1 ELSE loc.i
    IN /\ loc' = [loc EXCEPT !.i = i2, !.j = IF brk THEN 0 ELSE loc.j + 1,
                             !.last = kind]
       /\ pc' = IF i2 >= WallCount THEN "returned" ELSE pc

\* One iteration of the inner loop of reverse_verified_scatter_generator.
ReverseVerifiedScatterAttempt ==
    /\ pc = "reverse_verified_scatter_generator"
    /\ \E x \in RefineDraws, y \in RefineDraws :
        IF PLAYER \in level[Idx(x, y)]
        THEN /\ UNCHANGED level
             /\ ScatterAdvance("skipped")
        ELSE \E r \in {TryWall(level, Idx(x, y))} :
                /\ level' = r.level
                /\ ScatterAdvance(IF r.accepted THEN "accepted" ELSE "rejected")
    /\ UNCHANGED ret

\* void reverse_verified_fill_generator(Level level)
ReverseVerifiedFillCall ==
    /\ pc = "ready"
    /\ \E r \in {reverse_verified_fill_generator(level)} :
        /\ level' = r.level
        /\ loc' = [op |-> "reverse_verified_fill_generator", before |-> level,
                   tried |-> r.tried]
    /\ pc' = "returned"
    /\ UNCHANGED ret

NextRefine ==
    \/ ReverseVerifiedScatterEnter
    \/ ReverseVerifiedScatterAttempt
    \/ ReverseVerifiedFillCall

SpecRefine == InitRefine /\ [][NextRefine]_vars

\* The grid lv with a Wall bit added to tile c.
WithWall(lv, c) == [lv EXCEPT ![c] = @ \cup {WALL}]

InScatterRefiner == loc.op = "reverse_verified_scatter_generator"

\* C2: in reverse_verified_scatter_generator a wall is accepted only if the
\* grid is completable with the wall in place, no attempt (accepted, rejected
\* or skipped) turns a completable grid into one that is not, and a
\* completable input grid is completable when the refiner returns.
C2_ScatterRefinerKeepsCompletable ==
    [][(pc = "reverse_verified_scatter_generator") =>
        /\ loc'.last = "accepted" =>
              \E c \in Cells : /\ level' = [level EXCEPT ![c] = {WALL}]
                               /\ KeyAndExitReachable(WithWall(level, c))
        /\ level' # level => (KeyAndExitReachable(level) => KeyAndExitReachable(level'))
        /\ (pc' = "returned" /\ KeyAndExitReachable(loc.before)) =>
              KeyAndExitReachable(level')]_vars

\* The refiner returned from a completable grid after accepting a wall, its
\* last attempt being a rejected one.
C2_Witness ==
    /\ pc = "returned"
    /\ InScatterRefiner
    /\ KeyAndExitReachable(loc.before)
    /\ \E c \in Interior : level[c] = {WALL} /\ loc.before[c] # {WALL}
    /\ loc.last = "rejected"

\* C7: reverse_verified_fill_generator tries every interior cell in row-major
\* order; on a completable input the result is completable and wall-maximal,
\* i.e. no interior cell that is not pure Wall can be turned into Wall
\* without making the grid incompletable.
C7_FillTriesEveryCellAndIsWallMaximal ==
    (pc = "returned" /\ loc.op = "reverse_verified_fill_generator") =>
        /\ Range(loc.tried) = Interior
        /\ KeyAndExitReachable(loc.before) =>
              /\ KeyAndExitReachable(level)
              /\ \A c \in Interior :
                    level[c] # {WALL} =>
                        ~KeyAndExitReachable([level EXCEPT ![c] = {WALL}])

\* ------------------------------------------- SpecPlacer: the entity placers
\* The values random_int_range(1, LEVEL_SIZE-1) can return.
PlacerDraws == {random_int_range(1, LEVEL_SIZE - 1, u) : u \in U64}

\* What the three chained chance() calls of the hazard scattering add to a
\* tile: Gold, else Enemy, else Spikes, else nothing (0).  The chances are
\* gold_chance = 0.07, enemy_chance = 0.03 and spikes_chance = 0.03.
HazardRoll(u1, u2, u3) ==
    IF chance(7, 100, u1) THEN GOLD
    ELSE IF chance(3, 100, u2) THEN ENEMY
    ELSE IF chance(3, 100, u3) THEN SPIKES
    ELSE 0

HazardRolls == {HazardRoll(u1, u2, u3) : u1 \in U64, u2 \in U64, u3 \in U64}

\* The base topologies the placers are run on: the arena of empty_level,
\* plain or with a Wall on its first interior cell.
PlacerLevels ==
    {empty_level(fill_level(<<>>, WALL)),
     [empty_level(fill_level(<<>>, WALL)) EXCEPT ![FirstSpot] = BIT(WALL)]}

Placers == {"scatter_placer", "verified_scatter_placer"}

FloorMask == BIT(FLOOR) \cup BIT(WALL) \cup BIT(SPIKES)

InitPlacer ==
    /\ level \in PlacerLevels
    /\ pc = "ready"
    /\ loc = [op |-> "none"]
    /\ ret = "none"

\* Entry of scatter_placer or verified_scatter_placer.
PlacerEnter ==
    /\ pc = "ready"
    /\ \E op \in Placers :
        loc' = [op |-> op, x |-> 1, y |-> 1, hazards |-> 0, seen |-> {}, chosen |-> <<>>]
    /\ pc' = "hazards"
    /\ UNCHANGED <<level, ret>>

\* One iteration of "Scatter some entities around", on tile (loc.x, loc.y).
PlacerHazard ==
    /\ pc = "hazards"
    /\ \E h \in HazardRolls :
        LET c == Idx(loc.x, loc.y)
            add == WALL \notin level[c] /\ h # 0
            lastx == loc.x + 1 >= LEVEL_SIZE - 1
            lasty == loc.y + 1 >= LEVEL_SIZE - 1
        IN /\ add => loc.hazards < MaxHazards
           /\ level' = IF add THEN [level EXCEPT ![c] = @ \cup BIT(h)] ELSE level
           /\ loc' = [loc EXCEPT !.x = IF lastx THEN 1 ELSE loc.x + 1,
                                 !.y = IF lastx THEN loc.y + 1 ELSE loc.y,
                                 !.hazards = IF add THEN loc.hazards + 1 ELSE loc.hazards]
           /\ pc' = IF lastx /\ lasty THEN "exit" ELSE pc
    /\ UNCHANGED ret

\* The value read past the array matters only for an index outside it.
GarbageAt(i) == IF i \in Cells THEN {{}} ELSE Garbage

\* The do/while of a critical entity has ended on index i, where the tile
\* read was t: the entity is stored and the next loop entered.
PlacerPut(i, t, tile, nextpc) ==
    /\ level' = Store(level, i, tile)
    /\ loc' = [loc EXCEPT !.seen = {}, !.chosen = Append(loc.chosen, <<i, t>>)]
    /\ pc' = nextpc

\* "Place the locked door": one iteration of the do/while and, when it ends,
\* the store.  scatter_placer assigns the tile, verified_scatter_placer ORs
\* the bits into it.
PlacerExit ==
    /\ pc = "exit"
    /\ \E x \in PlacerDraws, y \in PlacerDraws :
        \E g \in GarbageAt(Idx(x, y)) :
            LET t == Load(level, Idx(x, y), g)
            IN IF t # BIT(FLOOR) THEN UNCHANGED <<level, loc, pc>>
               ELSE PlacerPut(Idx(x, y), t,
                              IF loc.op = "scatter_placer"
                              THEN BIT(FLOOR) \cup BIT(EXIT) \cup BIT(LOCK)
                              ELSE t \cup BIT(EXIT) \cup BIT(LOCK),
                              "key")
    /\ UNCHANGED ret

\* One iteration of a do/while of scatter_placer for the Key (pc = "key") or
\* the Player (pc = "player").
ScatterPlacerPlace ==
    /\ pc \in {"key", "player"}
    /\ loc.op = "scatter_placer"
    /\ \E x \in PlacerDraws, y \in PlacerDraws :
        \E g \in GarbageAt(Idx(x, y)) :
            LET t == Load(level, Idx(x, y), g)
            IN IF t # BIT(FLOOR) THEN UNCHANGED <<level, loc, pc>>
               ELSE IF pc = "key"
               THEN PlacerPut(Idx(x, y), t, BIT(FLOOR) \cup BIT(KEY), "player")
               ELSE PlacerPut(Idx(x, y), t, BIT(FLOOR) \cup BIT(PLAYER), "returned")
    /\ UNCHANGED ret

\* One iteration of the Key loop of verified_scatter_placer: flood from the
\* candidate into seen_entity_types; the loop goes on while the tile is not
\* plain Floor and no Exit has been seen.
VerifiedPlacerKey ==
    /\ pc = "key"
    /\ loc.op = "verified_scatter_placer"
    /\ \E x \in PlacerDraws, y \in PlacerDraws :
        \E g \in GarbageAt(Idx(x, y)) :
        \E seen \in {flood(level, x, y, FloorMask, BIT(FLOOR),
                           "flood_record_tiles", loc.seen).data} :
            LET t == Load(level, Idx(x, y), g)
            IN IF t # BIT(FLOOR) /\ seen \cap BIT(EXIT) = {}
               THEN /\ loc' = [loc EXCEPT !.seen = seen]
                    /\ UNCHANGED <<level, pc>>
               ELSE PlacerPut(Idx(x, y), t, t \cup BIT(KEY), "player")
    /\ UNCHANGED ret

\* One iteration of the Player loop of verified_scatter_placer: the loop goes
\* on while the tile is not plain Floor and neither Exit nor Key has been seen.
VerifiedPlacerPlayer ==
    /\ pc = "player"
    /\ loc.op = "verified_scatter_placer"
    /\ \E x \in PlacerDraws, y \in PlacerDraws :
        \E g \in GarbageAt(Idx(x, y)) :
        \E seen \in {flood(level, x, y, FloorMask, BIT(FLOOR),
                           "flood_record_tiles", loc.seen).data} :
            LET t == Load(level, Idx(x, y), g)
            IN IF t # BIT(FLOOR) /\ seen \cap (BIT(EXIT) \cup BIT(KEY)) = {}
               THEN /\ loc' = [loc EXCEPT !.seen = seen]
                    /\ UNCHANGED <<level, pc>>
               ELSE PlacerPut(Idx(x, y), t, t \cup BIT(PLAYER), "returned")
    /\ UNCHANGED ret

NextPlacer ==
    \/ PlacerEnter
    \/ PlacerHazard
    \/ PlacerExit
    \/ ScatterPlacerPlace
    \/ VerifiedPlacerKey
    \/ VerifiedPlacerPlayer

SpecPlacer == InitPlacer /\ [][NextPlacer]_vars

\* The tiles of lv that have the bit of entity e.
TilesWith(lv, e) == {c \in Cells : e \in lv[c]}

\* The cells with both coordinates in 1..LEVEL_SIZE-1, which the draws of
\* the placers that stay between low and high address.
InRangeCells == {c \in Cells : XOf(c) >= 1 /\ YOf(c) >= 1}

\* C1: when verified_scatter_placer returns on a completable base topology,
\* the Key tile and the Exit tile are both reachable from the Player tile
\* through tiles that have Floor and neither Wall nor Spikes.  (Stated for
\* the runs in which the three entities were put on in-range cells.)
C1_VerifiedPlacerOutputCompletable ==
    (/\ pc = "returned"
     /\ loc.op = "verified_scatter_placer"
     /\ \A k \in 1..Len(loc.chosen) : loc.chosen[k][1] \in InRangeCells) =>
        KeyAndExitReachable(level)

\* C5: after scatter_placer or verified_scatter_placer returns on a grid that
\* held none of Player, Key, Exit and Lock, exactly one tile has Player, one
\* has Key, one has Exit, one has Lock, and the Lock tile is the Exit tile.
C5_OneOfEachCriticalEntity ==
    (pc = "returned" /\ loc.op \in Placers) =>
        /\ Cardinality(TilesWith(level, PLAYER)) = 1
        /\ Cardinality(TilesWith(level, KEY)) = 1
        /\ Cardinality(TilesWith(level, EXIT)) = 1
        /\ Cardinality(TilesWith(level, LOCK)) = 1
        /\ TilesWith(level, LOCK) = TilesWith(level, EXIT)

\* ------------------------------------------ SpecDigger: digger_generator
\* The grids digger_generator is run on: no Floor anywhere (all Wall, or the
\* zero-initialised Level of main).
DiggerLevels == {fill_level(<<>>, WALL), [c \in Cells |-> {}]}

\* The values random_int_range(1, 4) can return for the direction.
DirectionDraws == {random_int_range(1, 4, u) : u \in U64}

\* The outcomes of chance(turn_chance), turn_chance being k * turn_chance_step
\* and turn_chance_step 0.01.
TurnOutcomes(k) == {chance(k, 100, u) : u \in U64}

InitDigger ==
    /\ level \in DiggerLevels
    /\ pc = "ready"
    /\ loc = [op |-> "none"]
    /\ ret = "none"

\* Entry of digger_generator (parameters == NULL), up to the first walk.
DiggerEnter ==
    /\ pc = "ready"
    /\ pc' = "start"
    /\ loc' = [op |-> "digger_generator", i |-> 0, turn_chance |-> 1,
               digger_x |-> 0, digger_y |-> 0, direction |-> 0, count |-> 0,
               inrange |-> TRUE]
    /\ UNCHANGED <<level, ret>>

\* One iteration of the do/while that chooses where walk i starts and, when
\* it ends, the choice of the first direction.
DiggerStart ==
    /\ pc = "start"
    /\ \E x \in PlacerDraws, y \in PlacerDraws :
        \E g \in GarbageAt(Idx(x, y)) :
            IF loc.i > 0 /\ Load(level, Idx(x, y), g) # BIT(FLOOR)
            THEN /\ loc' = [loc EXCEPT !.inrange = @ /\ x < LEVEL_SIZE /\ y < LEVEL_SIZE]
                 /\ pc' = pc
            ELSE \E d \in DirectionDraws :
                    /\ loc' = [loc EXCEPT !.digger_x = x, !.digger_y = y,
                                          !.direction = d, !.count = 0,
                                          !.inrange = @ /\ x < LEVEL_SIZE
                                                        /\ y < LEVEL_SIZE /\ d <= 4]
                    /\ pc' = "dig"
    /\ UNCHANGED <<level, ret>>

\* The digger's position after one move in direction d, clamped to the interior.
DiggerMove(x, y, d) ==
    [x |-> CLAMP(1, IF d = LEFT THEN x - 1 ELSE IF d = RIGHT THEN x + 1 ELSE x,
                 LEVEL_SIZE - 2),
     y |-> CLAMP(1, IF d = UP THEN y - 1 ELSE IF d = DOWN THEN y + 1 ELSE y,
                 LEVEL_SIZE - 2)]

\* One iteration of the loop over count: dig the tile, move, clamp, maybe
\* turn; after the last one the next walk starts or the function returns.
DiggerStep ==
    /\ pc = "dig"
    /\ level' = Store(level, Idx(loc.digger_x, loc.digger_y), BIT(FLOOR))
    /\ \E turn \in TurnOutcomes(loc.turn_chance) :
       \E d \in (IF turn THEN DirectionDraws ELSE {loc.direction}) :
        LET to == DiggerMove(loc.digger_x, loc.digger_y, loc.direction)
            walked == loc.count + 1 >= IdealWalkable
        IN /\ loc' = [loc EXCEPT
                        !.digger_x = to.x, !.digger_y = to.y,
                        !.direction = d,
                        !.turn_chance = IF walked THEN 1
                                        ELSE IF turn THEN @ ELSE @ + 1,
                        !.count = IF walked THEN 0 ELSE @ + 1,
                        !.i = IF walked THEN @ + 1 ELSE @,
                        !.inrange = @ /\ d <= 4]
           /\ pc' = IF ~walked THEN pc
                    ELSE IF loc.i + 1 >= Iterations THEN "returned" ELSE "start"
    /\ UNCHANGED ret

NextDigger == DiggerEnter \/ DiggerStart \/ DiggerStep

SpecDigger == InitDigger /\ [][NextDigger]_vars

\* C6: after digger_generator returns on a grid that held no Floor, every
\* Floor tile is reachable from every other Floor tile by 4-neighbour steps
\* through Floor tiles.  (Stated for the runs in which every random draw stayed
\* between its low and high.)
C6_DugFloorIsConnected ==
    (pc = "returned" /\ loc.op = "digger_generator" /\ loc.inrange) =>
        \A a \in TilesWith(level, FLOOR) :
            ComponentIn(a, TilesWith(level, FLOOR)) = TilesWith(level, FLOOR)

\* ----------------- SpecScatterFair: scatter_placer under fair draws
\* Entry of scatter_placer.
ScatterPlacerEnter == PlacerEnter /\ loc'.op = "scatter_placer"

NextScatter ==
    \/ ScatterPlacerEnter
    \/ PlacerHazard
    \/ PlacerExit
    \/ ScatterPlacerPlace

\* The random draws are independent, so a draw that stays possible is
\* eventually made: a loop that some draw can leave is eventually left.  (An
\* iteration that rejects its draw changes nothing.)
SpecScatterFair == InitPlacer /\ [][NextScatter]_vars /\ WF_vars(NextScatter)

\* The three rejection-sampling loops of scatter_placer.
InScatterPlacerLoop == loc.op = "scatter_placer" /\ pc \in {"exit", "key", "player"}

\* Some candidate cell (coordinates 1..LEVEL_SIZE-1) is exactly Floor.
FloorCandidate == \E c \in InRangeCells : level[c] = BIT(FLOOR)

\* C11: a rejection-sampling loop of scatter_placer is never left while no
\* candidate cell is exactly Floor (the placer then never returns), and is
\* eventually left, under fair draws, when some candidate cell is.
C11_ScatterPlacerReturnsIffFloorCandidate ==
    /\ [][(InScatterPlacerLoop /\ ~FloorCandidate) => pc' = pc]_vars
    /\ \A p \in {"exit", "key", "player"} :
          (loc.op = "scatter_placer" /\ pc = p /\ FloorCandidate) ~> (pc # p)

\* The second half of C11 on its own: with a Floor candidate the loop is
\* eventually left.
C11_LoopLeftWhenFloorCandidate ==
    \A p \in {"exit", "key", "player"} :
        (loc.op = "scatter_placer" /\ pc = p /\ FloorCandidate) ~> (pc # p)

\* ------------------ SpecRollback: the refiners, one wall attempt per step
\* The grids of RefineLevels and an arena that is not completable (Player
\* only) and already holds a Wall on an interior cell.
RollbackLevels ==
    RefineLevels \cup
    {Put(Put(empty_level(fill_level(<<>>, WALL)), Idx(2, 1), BIT(WALL)),
         FirstSpot, BIT(PLAYER))}

InitRollback ==
    /\ level \in RollbackLevels
    /\ pc = "ready"
    /\ loc = [op |-> "none"]
    /\ ret = "none"

\* Entry of reverse_verified_fill_generator: y = 1, x = 1.
ReverseVerifiedFillEnter ==
    /\ pc = "ready"
    /\ pc' = "reverse_verified_fill_generator"
    /\ loc' = [op |-> "reverse_verified_fill_generator", before |-> level,
               x |-> 1, y |-> 1, last |-> "none"]
    /\ UNCHANGED <<level, ret>>

\* One iteration of the loop over x of reverse_verified_fill_generator: an
\* accepted wall breaks out of the row, a rejected one goes on to x + 1.
ReverseVerifiedFillAttempt ==
    /\ pc = "reverse_verified_fill_generator"
    /\ \E r \in {TryWall(level, Idx(loc.x, loc.y))} :
        LET endrow == r.accepted \/ loc.x + 1 >= LEVEL_SIZE - 1
            y2 == IF endrow THEN loc.y + 1 ELSE loc.y
        IN /\ level' = r.level
           /\ loc' = [loc EXCEPT !.x = IF endrow THEN 1 ELSE loc.x + 1,
                                 !.y = y2,
                                 !.last = IF r.accepted THEN "accepted" ELSE "rejected"]
           /\ pc' = IF y2 >= LEVEL_SIZE - 1 THEN "returned" ELSE pc
    /\ UNCHANGED ret

NextRollback ==
    \/ ReverseVerifiedScatterEnter
    \/ ReverseVerifiedScatterAttempt
    \/ ReverseVerifiedFillEnter
    \/ ReverseVerifiedFillAttempt

SpecRollback == InitRollback /\ [][NextRollback]_vars

\* The loop of reverse_verified_fill_generator computes what the function
\* computes as a whole.
FillStepsAgree ==
    (pc = "returned" /\ loc.op = "reverse_verified_fill_generator") =>
        level = reverse_verified_fill_generator(loc.before).level

\* C12: in the subtractive refiners a rejected wall insertion is fully
\* rolled back: after it every tile is identical to its value just before
\* the attempt.  (Stated for the interior tiles, which the draws that stay
\* between low and high address.)
C12_RejectedWallIsRolledBack ==
    [][(/\ pc \in {"reverse_verified_scatter_generator",
                   "reverse_verified_fill_generator"}
        /\ loc'.last = "rejected") =>
            \A c \in Interior : level'[c] = level[c]]_vars

\* The first k tiles flood visited hold a Key and hold an Exit (verify_level
\* then asks to stop).
FoundBoth(k) ==
    /\ \E n \in 1..k : KEY \in loc.before[loc.visits[n]]
    /\ \E n \in 1..k : EXIT \in loc.before[loc.visits[n]]

\* C13: when the visitor asks to stop, flood makes no further invocation (the
\* stop was asked by the last tile visited, by no earlier one) and returns the
\* number of invocations made, that last tile included.
C13_StopReturnsVisitCount ==
    (pc = "flood" /\ loc.stopped) =>
        /\ FoundBoth(Len(loc.visits))
        /\ ~FoundBoth(Len(loc.visits) - 1)
        /\ ret = Len(loc.visits)

\* The first half of C13 on its own: the stop ends the traversal at once; the
\* value returned is one less than the number of invocations.
C13_StopHaltsAtOnce ==
    (pc = "flood" /\ loc.stopped) =>
        /\ FoundBoth(Len(loc.visits))
        /\ ~FoundBoth(Len(loc.visits) - 1)
        /\ ret = Len(loc.visits) - 1

\* C14: digger_generator writes interior cells only: no step of it changes a
\* tile of the outer border ring.  (Stated for the runs in which every random
\* draw stayed between its low and high.)
C14_DiggerLeavesBorderAlone ==
    [][(loc.op = "digger_generator" /\ loc'.inrange) =>
          \A c \in Border : level'[c] = level[c]]_vars

\* C15: within one digger walk turn_chance starts at turn_chance_step (1, in
\* units of turn_chance_step), a step leaves it either grown by one unit (no
\* turn) or back at one unit (turn), and after a step that changed the
\* direction, which only a turn does, it is one unit.
C15_TurnChanceResetsOnTurn ==
    [][/\ (pc = "start" /\ pc' = "dig") => loc'.turn_chance = 1
       /\ (pc = "dig" /\ pc' = "dig") =>
             /\ loc'.turn_chance \in {1, loc.turn_chance + 1}
             /\ loc'.direction # loc.direction => loc'.turn_chance = 1]_vars

\* What holds instead: a turn leaves turn_chance as it is.
C15_TurnChanceKeptOnTurn ==
    [][/\ (pc = "start" /\ pc' = "dig") => loc'.turn_chance = 1
       /\ (pc = "dig" /\ pc' = "dig") =>
             /\ loc'.turn_chance \in {loc.turn_chance, loc.turn_chance + 1}
             /\ loc'.direction # loc.direction => loc'.turn_chance = loc.turn_chance]_vars

\* ----------- SpecPreserve: reverse_entity_preserving_scatter_generator
\* The values the uninitialised local counted_entities may hold when flood
\* starts adding to it.
JunkCounts == (0 - MaxJunk)..MaxJunk

\* The tiles count_entities counts: some bit beyond Floor, Wall and Spikes.
EntityTiles(lv) == {c \in Cells : lv[c] \ FloorMask # {}}

\* Entry of reverse_entity_preserving_scatter_generator: actual_entity_count
\* is counted once, over the whole level.  (wall_count and attempts are the
\* bounds WallCount and Attempts here too.)
EntityPreservingEnter ==
    /\ pc = "ready"
    /\ pc' = "reverse_entity_preserving_scatter_generator"
    /\ loc' = [op |-> "reverse_entity_preserving_scatter_generator",
               before |-> level, i |-> 0, j |-> 0, last |-> "none", c |-> None,
               actual_entity_count |-> Cardinality(EntityTiles(level))]
    /\ UNCHANGED <<level, ret>>

\* Where the loops stand after an attempt on cell c: as ScatterAdvance.
EntityPreservingAdvance(kind, c) ==
    LET brk == kind = "accepted" \/ loc.j + 1 >= Attempts
        i2 == IF brk THEN loc.i + 1 ELSE loc.i
    IN /\ loc' = [loc EXCEPT !.i = i2, !.j = IF brk THEN 0 ELSE loc.j + 1,
                             !.last = kind, !.c = c]
       /\ pc' = IF i2 >= WallCount THEN "returned" ELSE pc

\* One iteration of the inner loop: skip the Player's tile; else OR the Wall
\* in, return if there is no Player, flood from the Player counting entity
\* tiles on top of whatever counted_entities held, and keep the wall iff the
\* count equals actual_entity_count.
EntityPreservingAttempt ==
    /\ pc = "reverse_entity_preserving_scatter_generator"
    /\ \E x \in RefineDraws, y \in RefineDraws, junk \in JunkCounts :
        \E walled \in {[level EXCEPT ![Idx(x, y)] = @ \cup BIT(WALL)]} :
        \E p \in {find_player(walled)} :
           IF PLAYER \in level[Idx(x, y)]
           THEN /\ UNCHANGED level
                /\ EntityPreservingAdvance("skipped", Idx(x, y))
           ELSE IF ~p.found
           THEN /\ level' = walled
                /\ loc' = [loc EXCEPT !.last = "no player", !.c = Idx(x, y)]
                /\ pc' = "returned"
           ELSE \E counted \in {flood(walled, p.px, p.py, FloorMask, BIT(FLOOR),
                                      "count_entities", junk).data} :
                  IF loc.actual_entity_count # counted
                  THEN /\ level' = [level EXCEPT ![Idx(x, y)] = Toggle(@ \cup BIT(WALL), WALL)]
                       /\ EntityPreservingAdvance("rejected", Idx(x, y))
                  ELSE /\ level' = [level EXCEPT ![Idx(x, y)] = BIT(WALL)]
                       /\ EntityPreservingAdvance("accepted", Idx(x, y))
    /\ UNCHANGED ret

\* The grids the refiner is run on: those of RefineLevels and an arena with
\* Gold only, where find_player fails.
PreserveLevels ==
    RefineLevels \cup {Put(empty_level(fill_level(<<>>, WALL)), LastSpot, BIT(GOLD))}

InitPreserve ==
    /\ level \in PreserveLevels
    /\ pc = "ready"
    /\ loc = [op |-> "none"]
    /\ ret = "none"

NextPreserve == EntityPreservingEnter \/ EntityPreservingAttempt

SpecPreserve == InitPreserve /\ [][NextPreserve]_vars

\* The entity tiles of lv in the walkable component of its first Player tile.
ReachableEntityTiles(lv) ==
    IF find_player(lv).found
    THEN EntityTiles(lv) \cap
         ComponentIn(Idx(find_player(lv).px, find_player(lv).py), Walkable(lv))
    ELSE {}

\* C16: in reverse_entity_preserving_scatter_generator a tentative wall is
\* accepted iff the number of entity tiles flooded from the Player with the
\* wall in place equals the number of entity tiles in the grid before the
\* attempt; and on return every entity tile present on entry (on a grid with a
\* Player) is unchanged and reachable from the Player.
C16_AcceptedIffAllEntitiesReachable ==
    [][(pc = "reverse_entity_preserving_scatter_generator") =>
        /\ loc'.last \in {"accepted", "rejected"} =>
              (loc'.last = "accepted" <=>
                  Cardinality(ReachableEntityTiles(WithWall(level, loc'.c)))
                      = Cardinality(EntityTiles(level)))
        /\ (pc' = "returned" /\ find_player(loc.before).found) =>
              \A c \in EntityTiles(loc.before) :
                  /\ level'[c] = loc.before[c]
                  /\ c \in ReachableEntityTiles(level')]_vars

\* -------- SpecRefineOpen: the refiners on grids with and without a Wall ring
\* A completable grid without a Wall ring: all Floor, the Player and the Key
\* on the first interior cell, the Exit and its Lock on the last.
OpenLevels ==
    {Put(Put(Put(fill_level(<<>>, FLOOR), LastSpot, BIT(EXIT) \cup BIT(LOCK)),
             FirstSpot, BIT(KEY)), FirstSpot, BIT(PLAYER))}

InitRefineOpen ==
    /\ level \in RefineLevels \cup OpenLevels
    /\ pc = "ready"
    /\ loc = [op |-> "none"]
    /\ ret = "none"

SpecRefineOpen == InitRefineOpen /\ [][NextRefine]_vars

\* The tiles of lv that hold a critical entity: Player, Key, Exit or Lock.
CriticalTiles(lv) ==
    {c \in Cells : lv[c] \cap (BIT(PLAYER) \cup BIT(KEY) \cup BIT(EXIT) \cup BIT(LOCK)) # {}}

\* C17: while reverse_verified_scatter_generator runs on a completable grid
\* with one Player, one Key and one Exit with its Lock, and when it has
\* returned, the tiles that held Player, Key, Exit or Lock on entry and all
\* border tiles are as they were on entry.
C17_ScatterRefinerKeepsCriticalTiles ==
    (InScatterRefiner /\ KeyAndExitReachable(loc.before)) =>
        \A c \in CriticalTiles(loc.before) \cup Border : level[c] = loc.before[c]

\* The first half of C17 on its own: the critical tiles are kept.
C17_CriticalTilesKept ==
    (InScatterRefiner /\ KeyAndExitReachable(loc.before)) =>
        \A c \in CriticalTiles(loc.before) : level[c] = loc.before[c]

\* C18: verified_scatter_placer puts Exit+Lock, Key and Player on three
\* pairwise distinct tiles, each of which was exactly Floor when chosen.
\* (Stated for the runs in which the three entities were put on in-range
\* cells.)
C18_VerifiedPlacerDistinctFloorTiles ==
    (/\ pc = "returned"
     /\ loc.op = "verified_scatter_placer"
     /\ \A k \in 1..Len(loc.chosen) : loc.chosen[k][1] \in InRangeCells) =>
        /\ \A k \in 1..Len(loc.chosen) : loc.chosen[k][2] = BIT(FLOOR)
        /\ \A j, k \in 1..Len(loc.chosen) : j # k => loc.chosen[j][1] # loc.chosen[k][1]

\* ------------------------------------------ SpecGame: update_level (game.c)
\* #define STATIC_ENTITIES (BIT(FLOOR) | BIT(WALL) | BIT(SPIKES) | BIT(EXIT))
STATIC_ENTITIES == BIT(FLOOR) \cup BIT(WALL) \cup BIT(SPIKES) \cup BIT(EXIT)
\* #define SOLID_ENTITIES (BIT(WALL))
SOLID_ENTITIES == BIT(WALL)

\* The index reached from c by one move in direction d; any d other than
\* UP, DOWN, LEFT and RIGHT is no move.
Moved(c, d) ==
    Idx(IF d = LEFT THEN XOf(c) - 1 ELSE IF d = RIGHT THEN XOf(c) + 1 ELSE XOf(c),
        IF d = UP THEN YOf(c) - 1 ELSE IF d = DOWN THEN YOf(c) + 1 ELSE YOf(c))

\* The enemy part of the first pass for the tile at c; ed is the direction
\* drawn by random_int_range(1, 6).
EnemyStep(st, c, ed) ==
    IF ENEMY \notin st.level[c] THEN st
    ELSE IF st.level[Moved(c, ed)] \cap SOLID_ENTITIES = {}
    THEN [st EXCEPT !.updated[Moved(c, ed)] = @ \cup BIT(ENEMY)]
    ELSE [st EXCEPT !.updated[c] = @ \cup BIT(ENEMY)]

\* The player part of the first pass for the tile at c.  exit_over and
\* spikes_over tell which of the two tests set game_over; entered is new_tile.
PlayerStep(st, c, direction) ==
    IF PLAYER \notin st.level[c] THEN st
    ELSE LET s1 == IF ENEMY \in st.updated[c]
                   THEN [st EXCEPT !.updated[c] = @ \ BIT(ENEMY)] ELSE st
             n == Moved(c, direction)
             new_tile == s1.level[n]
         IN IF new_tile \cap SOLID_ENTITIES = {}
            THEN [s1 EXCEPT
                    !.updated[n] = @ \cup BIT(PLAYER),
                    !.level[n] = @ \ (BIT(GOLD) \cup BIT(KEY) \cup BIT(ENEMY)),
                    !.exit_over = @ \/ (EXIT \in new_tile /\ LOCK \notin new_tile),
                    !.spikes_over = @ \/ SPIKES \in new_tile,
                    !.entered = new_tile]
            ELSE [s1 EXCEPT !.updated[c] = @ \cup BIT(PLAYER)]

\* "First pass through level handles dynamic entities", from index c on; a
\* tile with neither Enemy nor Player is passed over.
RECURSIVE FirstPass(_, _, _, _)
FirstPass(st, c, direction, ed) ==
    IF c >= LEVEL_SIZE * LEVEL_SIZE THEN st
    ELSE IF st.level[c] \cap (BIT(ENEMY) \cup BIT(PLAYER)) = {}
    THEN FirstPass(st, c + 1, direction, ed)
    ELSE FirstPass(PlayerStep(EnemyStep(st, c, ed), c, direction), c + 1, direction, ed)

\* The locals of update_level before the first pass: updated_level holds the
\* static entities of every tile.
InitialUpdate(lv) ==
    [level |-> lv,
     updated |-> [c \in Cells |-> lv[c] \cap STATIC_ENTITIES],
     exit_over |-> FALSE, spikes_over |-> FALSE, entered |-> {}]

\* The second pass (Gold and Key are copied), the final pass (the Lock is
\* copied unless the Key has been collected) and the value returned.
FinishUpdate(p1, key_has_been_collected) ==
    [level |-> [c \in Cells |->
                  p1.updated[c]
                    \cup (p1.level[c] \cap (BIT(GOLD) \cup BIT(KEY)))
                    \cup (IF LOCK \in p1.level[c] /\ ~key_has_been_collected
                          THEN BIT(LOCK) ELSE {})],
     game_over |-> p1.exit_over \/ p1.spikes_over,
     exit_over |-> p1.exit_over,
     spikes_over |-> p1.spikes_over,
     entered |-> p1.entered]

\* Faulty variant of update_level: the final pass takes the Key for collected.
UpdateLevelDropsLock(lv, direction, ed) ==
    FinishUpdate(FirstPass(InitialUpdate(lv), 0, direction, ed), TRUE)

\* update_level(level, direction).  The levels tried hold at most one Enemy,
\* so one drawn direction ed serves an update.  The result holds the level
\* after the update and the value returned; the statistics counters
\* (gold_collected, enemies_killed) are left out.
update_level(lv, direction, ed) ==
    LET p1 == FirstPass(InitialUpdate(lv), 0, direction, ed)
    IN FinishUpdate(p1, \A c \in Cells : KEY \notin p1.level[c])

\* Levels with a Wall border, one Player, one Key and the Lock on the Exit;
\* the Key may lie on the Exit tile; an Enemy and Spikes are optional.
GameLevels ==
    {Put(Put(Put(Put(Put(empty_level(fill_level(<<>>, WALL)), s, BIT(SPIKES)),
                     n, BIT(ENEMY)), e, BIT(EXIT) \cup BIT(LOCK)), k, BIT(KEY)),
         p, BIT(PLAYER)) :
        p \in Interior, k \in {FirstSpot, Idx(2, 1)}, e \in {LastSpot, Idx(2, 1)},
        n \in {None, LastSpot}, s \in {None, Idx(1, 2)}}

\* The directions main passes: the four moves and ~0 (an update without a move).
Directions == {UP, DOWN, LEFT, RIGHT, 0 - 1}

\* The values random_int_range(1, 6) can return.
EnemyDraws == {random_int_range(1, 6, u) : u \in U64}

InitGame ==
    /\ level \in GameLevels
    /\ pc = "ready"
    /\ loc = [op |-> "none"]
    /\ ret = "none"

\* game_over = update_level(level, direction), in the frame loop of main,
\* which ends once game_over is true.
UpdateLevelCall ==
    /\ pc \in {"ready", "game"}
    /\ \E direction \in Directions, ed \in EnemyDraws :
        \E r \in {update_level(level, direction, ed)} :
            /\ level' = r.level
            /\ ret' = r.game_over
            /\ loc' = [op |-> "update_level", direction |-> direction,
                       exit_over |-> r.exit_over, spikes_over |-> r.spikes_over,
                       entered |-> r.entered]
            /\ pc' = IF r.game_over THEN "over" ELSE "game"

NextGame == UpdateLevelCall

SpecGame == InitGame /\ [][NextGame]_vars

\* C19: in every update after which a Key remains the Lock is where it was;
\* the update in which the Key is collected drops the Lock; and the game is
\* over for the exit only when the tile entered has Exit without Lock, which
\* never happens while a Key is in the level.
C19_NoExitWhileKeyRemains ==
    [][(pc \in {"ready", "game"} /\ loc'.op = "update_level") =>
        /\ TilesWith(level', KEY) # {} =>
              /\ TilesWith(level', LOCK) = TilesWith(level, LOCK)
              /\ TilesWith(level', LOCK) = TilesWith(level', EXIT)
        /\ (TilesWith(level, KEY) # {} /\ TilesWith(level', KEY) = {}) =>
              TilesWith(level', LOCK) = {}
        /\ loc'.exit_over =>
              /\ EXIT \in loc'.entered /\ LOCK \notin loc'.entered
              /\ TilesWith(level, KEY) = {} /\ TilesWith(level', KEY) = {}]_vars

\* The game has ended on the Exit, the Key and the Lock being gone.
C19_Witness ==
    /\ pc = "over"
    /\ loc.exit_over
    /\ ~loc.spikes_over
    /\ TilesWith(level, KEY) = {}
    /\ TilesWith(level, LOCK) = {}
    /\ \E c \in TilesWith(level, EXIT) : PLAYER \in level[c]

====
